---- MODULE Spec2Model ----
(***************************************************************************)
(* A model of the deep-research system's search aggregation               *)
(* (deep_research_system/tools/search_tools.py), of result deduplication, *)
(* entity extraction, query classification and the /summarize service     *)
(* (deep_research_system/agents/web_search_summarizer.py), of the command *)
(* line entry point (main.py), and of the configuration and the research  *)
(* runs (deep_research_system/config.py, research_system.py).             *)
(***************************************************************************)
EXTENDS Integers, Sequences, FiniteSets, TLC

VARIABLES
    Config,            \* which search credentials are set (truthy) in Config
    pc,                \* position of WebSearchTool._run: idle, loop, done
    max_results,       \* argument of _run
    preferred_engine,  \* argument of _run
    search_engines,    \* the list _get_search_engines returned
    idx,               \* position of the for loop in search_engines (1-based)
    results,           \* the list _run gathers
    calls,             \* history: the provider calls made, with the count asked for
    returned,          \* the value _run returned
    raised,            \* TRUE when an exception left _run
    dd_in,             \* the list deduplicate_results is first called on
    dd_out,            \* the lists successive calls of it returned
    prompt,            \* what create_search_agent_prompt built last
    prev_prompt,       \* what it built for the request before
    ee_snippets,       \* the snippets extract_entities is called on
    ee_out,            \* the list extract_entities returned
    ee_done,           \* TRUE when extract_entities has returned
    environ,           \* the LLM keys in the service's environment
    service,           \* "starting", "serving" or "aborted"
    startup_error,     \* the message of the ValueError raised at import
    request,           \* the body of each request to /summarize
    ner,               \* what the NER pass did for each request
    rq_pc,             \* where each request's handler is
    handler,           \* the locals of each call of summarize
    attempts,          \* the provider calls made for each request
    response,          \* what each request was answered
    cli,               \* the run of main.py: its arguments and what happens
    exit_code,         \* the exit code of the process, -1 while it runs
    os_environ,        \* os.environ of the process using the research system
    config_cls,        \* the class attributes of Config
    rs_state,          \* "start", "imported", "ready" or "failed"
    given,             \* --provider and the api_keys the caller passed
    provider_info,     \* the provider information reported at construction
    research_history,  \* DeepResearchSystem.research_history
    files,             \* the report files written
    last_call,         \* the last call of conduct_research
    n_calls            \* the number of calls of conduct_research so far

searchVars == <<Config, pc, max_results, preferred_engine, search_engines,
                idx, results, calls, returned, raised>>

dedupVars == <<dd_in, dd_out>>

promptVars == <<prompt, prev_prompt>>

entityVars == <<ee_snippets, ee_out, ee_done>>

serviceVars == <<environ, service, startup_error, request, ner, rq_pc,
                 handler, attempts, response>>

cliVars == <<cli, exit_code>>

researchVars == <<os_environ, config_cls, rs_state, given, provider_info,
                  research_history, files, last_call, n_calls>>

vars == <<searchVars, dedupVars, promptVars, entityVars, serviceVars, cliVars,
          researchVars>>

--------------------------------------------------------------------------
(* Bounds of the model *)

\* the largest cap a request asks for
MaxCap == 2
\* the most items one provider call returns (above MaxCap: a provider may
\* return more than it was asked for)
MaxReturned == 3
\* the longest list deduplicate_results is given
MaxResults == 3
\* the longest list of snippets extract_entities is given
MaxSnippets == 3
\* the most calls of conduct_research on one system
MaxCalls == 2
\* how many times deduplicate_results is applied in a row
MaxApplications == 2

--------------------------------------------------------------------------
(* Search aggregation: search_tools.py *)

KeyedEngines == <<"tavily", "serper", "google", "brave">>

Engines == {"tavily", "serper", "google", "brave", "duckduckgo"}

\* values of preferred_engine: auto, the five engines, and a name the tool
\* does not know
Preferences == Engines \cup {"auto", "bing"}

Min(a, b) == IF a <= b THEN a ELSE b

Max(a, b) == IF a >= b THEN a ELSE b

\* Python's s[:n]
SliceTo(s, n) ==
    IF n >= 0 THEN SubSeq(s, 1, Min(n, Len(s)))
    ELSE SubSeq(s, 1, Max(0, Len(s) + n))

\* Config.<ENGINE>_API_KEY is truthy
HasKey(cfg, engine) == engine \in DOMAIN cfg /\ cfg[engine]

\* the subsequence of seq whose elements satisfy the credential test
RECURSIVE Credentialed(_, _)
Credentialed(cfg, seq) ==
    IF seq = <<>> THEN <<>>
    ELSE IF HasKey(cfg, Head(seq))
         THEN <<Head(seq)>> \o Credentialed(cfg, Tail(seq))
         ELSE Credentialed(cfg, Tail(seq))

GetEnginesGoogleFirst(cfg, preferred) ==
    IF preferred # "auto"
    THEN IF preferred # "duckduckgo"
         THEN <<preferred, "duckduckgo">>
         ELSE <<preferred>>
    ELSE Credentialed(cfg, <<"google", "tavily", "serper", "brave">>)
         \o <<"duckduckgo">>

GetEnginesPreferredOnly(cfg, preferred) ==
    IF preferred # "auto" THEN <<preferred>>
    ELSE Credentialed(cfg, KeyedEngines) \o <<"duckduckgo">>

GetEnginesDoubleFallback(cfg, preferred) ==
    IF preferred # "auto" THEN <<preferred, "duckduckgo">>
    ELSE Credentialed(cfg, KeyedEngines) \o <<"duckduckgo">>

\* WebSearchTool._get_search_engines
GetSearchEngines(cfg, preferred) ==
    IF preferred # "auto"
    THEN IF preferred # "duckduckgo"
         THEN <<preferred, "duckduckgo">>
         ELSE <<preferred>>
    ELSE Credentialed(cfg, KeyedEngines) \o <<"duckduckgo">>

DispatchesIgnoringKeys(cfg, engine) == engine \in Engines

\* the if/elif chain of _run: the branch of `engine` is taken
Dispatches(cfg, engine) ==
    \/ engine = "tavily" /\ HasKey(cfg, "tavily")
    \/ engine = "serper" /\ HasKey(cfg, "serper")
    \/ engine = "google" /\ HasKey(cfg, "google")
    \/ engine = "brave" /\ HasKey(cfg, "brave")
    \/ engine = "duckduckgo"

LoopContinuesOffByOne(res, cap) == ~(Len(res) > cap)

\* the loop's guard: `if len(results) >= max_results: break` is not taken
LoopContinues(res, cap) == ~(Len(res) >= cap)

CaughtOnlyKeyed(engine) == engine # "duckduckgo"

\* `except Exception` around the provider call catches what the call raises
Caught(engine) == TRUE

FinalResultUntruncated(res, cap) == res

\* `return results[:max_results]`
FinalResult(res, cap) == SliceTo(res, cap)

AskedForCap(cap, res) == cap

\* the count passed to a provider: max_results - len(results)
AskedFor(cap, res) == cap - Len(res)

\* the k results a provider call returned
EngineResults(engine, k) == [j \in 1..k |-> [source |-> engine, rank |-> j]]

InitSearch ==
    /\ Config \in [{"tavily", "serper", "google", "brave"} -> BOOLEAN]
    /\ pc = "idle"
    /\ max_results = 0
    /\ preferred_engine = "auto"
    /\ search_engines = <<>>
    /\ idx = 1
    /\ results = <<>>
    /\ calls = <<>>
    /\ returned = <<>>
    /\ raised = FALSE

\* _run is called: lines 36-39
Run(cap, preferred) ==
    /\ pc = "idle"
    /\ max_results' = cap
    /\ preferred_engine' = preferred
    /\ results' = <<>>
    /\ search_engines' = GetSearchEngines(Config, preferred)
    /\ idx' = 1
    /\ pc' = "loop"
    /\ UNCHANGED <<Config, calls, returned, raised, dedupVars, promptVars,
                   entityVars, serviceVars, cliVars,
                   researchVars>>

InLoop ==
    /\ pc = "loop"
    /\ idx <= Len(search_engines)
    /\ LoopContinues(results, max_results)

\* one iteration whose provider call returns k results: lines 45-60
CallReturns(k) ==
    /\ InLoop
    /\ Dispatches(Config, search_engines[idx])
    /\ calls' = Append(calls, [engine |-> search_engines[idx], pos |-> idx,
                               asked |-> AskedFor(max_results, results),
                               had |-> Len(results), ok |-> TRUE, got |-> k])
    /\ results' = results \o EngineResults(search_engines[idx], k)
    /\ idx' = idx + 1
    /\ UNCHANGED <<Config, pc, max_results, preferred_engine, search_engines,
                   returned, raised, dedupVars, promptVars,
                   entityVars, serviceVars, cliVars,
                   researchVars>>

CallRaisesRetries ==
    /\ InLoop
    /\ Dispatches(Config, search_engines[idx])
    /\ calls' = Append(calls, [engine |-> search_engines[idx], pos |-> idx,
                               asked |-> AskedFor(max_results, results),
                               had |-> Len(results), ok |-> FALSE, got |-> 0])
    /\ UNCHANGED <<Config, pc, max_results, preferred_engine, search_engines,
                   idx, results, returned, raised, dedupVars, promptVars,
                   entityVars, serviceVars, cliVars,
                   researchVars>>

CallRaisesDropsResults ==
    /\ InLoop
    /\ Dispatches(Config, search_engines[idx])
    /\ calls' = Append(calls, [engine |-> search_engines[idx], pos |-> idx,
                               asked |-> AskedFor(max_results, results),
                               had |-> Len(results), ok |-> FALSE, got |-> 0])
    /\ results' = <<>>
    /\ idx' = idx + 1
    /\ UNCHANGED <<Config, pc, max_results, preferred_engine, search_engines,
                   returned, raised, dedupVars, promptVars,
                   entityVars, serviceVars, cliVars,
                   researchVars>>

\* one iteration whose provider call raises: lines 45-63
CallRaises ==
    /\ InLoop
    /\ Dispatches(Config, search_engines[idx])
    /\ calls' = Append(calls, [engine |-> search_engines[idx], pos |-> idx,
                               asked |-> AskedFor(max_results, results),
                               had |-> Len(results), ok |-> FALSE, got |-> 0])
    /\ IF Caught(search_engines[idx])
       THEN /\ idx' = idx + 1
            /\ UNCHANGED <<pc, raised>>
       ELSE /\ raised' = TRUE
            /\ pc' = "done"
            /\ UNCHANGED idx
    /\ UNCHANGED <<Config, max_results, preferred_engine, search_engines,
                   results, returned, dedupVars, promptVars,
                   entityVars, serviceVars, cliVars,
                   researchVars>>

\* one iteration in which no branch of the if/elif chain is taken
SkipEngine ==
    /\ InLoop
    /\ ~Dispatches(Config, search_engines[idx])
    /\ idx' = idx + 1
    /\ UNCHANGED <<Config, pc, max_results, preferred_engine, search_engines,
                   results, calls, returned, raised, dedupVars, promptVars,
                   entityVars, serviceVars, cliVars,
                   researchVars>>

\* the loop ends (exhausted, or break at line 43) and _run returns: line 65
Return ==
    /\ pc = "loop"
    /\ \/ idx > Len(search_engines)
       \/ ~LoopContinues(results, max_results)
    /\ returned' = FinalResult(results, max_results)
    /\ pc' = "done"
    /\ UNCHANGED <<Config, max_results, preferred_engine, search_engines,
                   idx, results, calls, raised, dedupVars, promptVars,
                   entityVars, serviceVars, cliVars,
                   researchVars>>

NextSearch ==
    \/ \E cap \in -1..MaxCap, preferred \in Preferences : Run(cap, preferred)
    \/ \E k \in 0..MaxReturned : CallReturns(k)
    \/ CallRaises
    \/ SkipEngine
    \/ Return

--------------------------------------------------------------------------
(* Result deduplication: web_search_summarizer.py *)

\* the similarity threshold, 0.85, as ThresholdNum / ThresholdDen
ThresholdNum == 85

ThresholdDen == 100

UpperChars == "ABCDEFGHIJKLMNOPQRSTUVWXYZ"

LowerChars == "abcdefghijklmnopqrstuvwxyz"

Whitespace == {" ", "\t", "\n"}

CharAt(s, i) == SubSeq(s, i, i)

\* str.lower() of one character
LowerChar(c) ==
    IF \E k \in 1..Len(UpperChars) : CharAt(UpperChars, k) = c
    THEN CharAt(LowerChars, CHOOSE k \in 1..Len(UpperChars) : CharAt(UpperChars, k) = c)
    ELSE c

\* str.lower()
RECURSIVE Lower(_)
Lower(s) ==
    IF Len(s) = 0 THEN ""
    ELSE LowerChar(CharAt(s, 1)) \o Lower(SubSeq(s, 2, Len(s)))

\* str.strip()
Strip(s) ==
    LET solid == {i \in 1..Len(s) : CharAt(s, i) \notin Whitespace}
    IN  IF solid = {} THEN ""
        ELSE SubSeq(s, CHOOSE i \in solid : \A j \in solid : i <= j,
                       CHOOSE i \in solid : \A j \in solid : i >= j)

\* key = r['title'].strip().lower()
TitleKey(title) == Lower(Strip(title))

\* the length of the common run of a and b that starts at a[i], b[j] and
\* stays within a[..ahi], b[..bhi]
RECURSIVE CommonRun(_, _, _, _, _, _)
CommonRun(a, b, i, j, ahi, bhi) ==
    IF i > ahi \/ j > bhi THEN 0
    ELSE IF CharAt(a, i) # CharAt(b, j) THEN 0
    ELSE 1 + CommonRun(a, b, i + 1, j + 1, ahi, bhi)

\* difflib's SequenceMatcher.find_longest_match without junk: the longest
\* common block of a[alo..ahi] and b[blo..bhi]; of the longest the one that
\* starts earliest in a, and of those the one that starts earliest in b
FindLongestMatch(a, b, alo, ahi, blo, bhi) ==
    LET run == [i \in alo..ahi, j \in blo..bhi |-> CommonRun(a, b, i, j, ahi, bhi)]
        best == CHOOSE k \in 0..(ahi - alo + 1) :
                    /\ k = 0 \/ \E i \in alo..ahi, j \in blo..bhi : run[i, j] = k
                    /\ \A i \in alo..ahi, j \in blo..bhi : run[i, j] <= k
    IN  IF best = 0 THEN [i |-> alo, j |-> blo, size |-> 0]
        ELSE LET besti == CHOOSE i \in alo..ahi :
                              /\ \E j \in blo..bhi : run[i, j] = best
                              /\ \A i2 \in alo..(i - 1) :
                                    \A j \in blo..bhi : run[i2, j] # best
                 bestj == CHOOSE j \in blo..bhi :
                              /\ run[besti, j] = best
                              /\ \A j2 \in blo..(j - 1) : run[besti, j2] # best
             IN  [i |-> besti, j |-> bestj, size |-> best]

\* the sum of the sizes of SequenceMatcher.get_matching_blocks: the longest
\* block, then the same to its left and to its right
RECURSIVE Matches(_, _, _, _, _, _)
Matches(a, b, alo, ahi, blo, bhi) ==
    IF alo > ahi \/ blo > bhi THEN 0
    ELSE LET m == FindLongestMatch(a, b, alo, ahi, blo, bhi)
         IN  IF m.size = 0 THEN 0
             ELSE m.size
                  + Matches(a, b, alo, m.i - 1, blo, m.j - 1)
                  + Matches(a, b, m.i + m.size, ahi, m.j + m.size, bhi)

\* SequenceMatcher(None, a, b).ratio() > threshold, where ratio() is
\* 2.0 * matches / (len(a) + len(b)), and 1.0 for two empty strings
RatioExceeds(a, b) ==
    LET total == Len(a) + Len(b)
    IN  IF total = 0 THEN ThresholdDen > ThresholdNum
        ELSE 2 * Matches(a, b, 1, Len(a), 1, Len(b)) * ThresholdDen
                 > ThresholdNum * total

\* any(SequenceMatcher(None, key, s).ratio() > threshold for s in seen)
IsNearDuplicate(key, seen) == \E s \in seen : RatioExceeds(key, s)

\* a loop that remembers the titles it dropped as well
RECURSIVE DedupLoopSeenAll(_, _, _, _)
DedupLoopSeenAll(rs, i, deduped, seen) ==
    IF i > Len(rs) THEN deduped
    ELSE LET key == TitleKey(rs[i].title)
         IN  IF IsNearDuplicate(key, seen)
             THEN DedupLoopSeenAll(rs, i + 1, deduped, seen \cup {key})
             ELSE DedupLoopSeenAll(rs, i + 1, Append(deduped, rs[i]), seen \cup {key})

\* a loop that remembers only the title before the current one
RECURSIVE DedupLoopAdjacent(_, _, _, _)
DedupLoopAdjacent(rs, i, deduped, seen) ==
    IF i > Len(rs) THEN deduped
    ELSE LET key == TitleKey(rs[i].title)
         IN  IF IsNearDuplicate(key, seen)
             THEN DedupLoopAdjacent(rs, i + 1, deduped, {key})
             ELSE DedupLoopAdjacent(rs, i + 1, Append(deduped, rs[i]), {key})

\* the for loop of deduplicate_results from its i-th iteration on
RECURSIVE DedupLoop(_, _, _, _)
DedupLoop(rs, i, deduped, seen) ==
    IF i > Len(rs) THEN deduped
    ELSE LET key == TitleKey(rs[i].title)
         IN  IF IsNearDuplicate(key, seen)
             THEN DedupLoop(rs, i + 1, deduped, seen)
             ELSE DedupLoop(rs, i + 1, Append(deduped, rs[i]), seen \cup {key})

\* deduplicate_results(results)
DeduplicateResults(rs) == DedupLoop(rs, 1, <<>>, {})

\* the results a caller passes in: titles that differ by case and
\* whitespace, near-duplicates, unrelated titles and an empty title
ResultPool ==
    { [title |-> "AI Tools 2024", url |-> "https://a.example/1"],
      [title |-> "AI tools 2024 ", url |-> "https://b.example/2"],
      [title |-> "abcde", url |-> "https://c.example/3"],
      [title |-> "abcd", url |-> "https://d.example/4"],
      [title |-> "bcde", url |-> "https://e.example/5"],
      [title |-> "aaaaaba", url |-> "https://f.example/6"],
      [title |-> "aabaaab", url |-> "https://g.example/7"],
      [title |-> "", url |-> "https://h.example/8"] }

\* the lists of at most n results
ResultLists(n) == UNION {[1..k -> ResultPool] : k \in 0..n}

InitDedup ==
    /\ dd_in \in ResultLists(MaxResults)
    /\ dd_out = <<>>

\* deduplicate_results is called: first on the input, then on its own output
Deduplicate ==
    /\ Len(dd_out) < MaxApplications
    /\ dd_out' = Append(dd_out, DeduplicateResults(
                     IF dd_out = <<>> THEN dd_in ELSE dd_out[Len(dd_out)]))
    /\ UNCHANGED <<dd_in, searchVars, promptVars, entityVars, serviceVars,
                   cliVars, researchVars>>

NextDedup == Deduplicate

--------------------------------------------------------------------------
(* Entity extraction: web_search_summarizer.py *)

\* the labels extract_entities keeps
AllowedLabels == {"ORG", "PRODUCT", "PERSON", "GPE", "DATE", "EVENT",
                  "WORK_OF_ART"}

\* the n of entity_counter.most_common(n)
TopEntities == 10

Ent(text, label) == [text |-> text, label |-> label]

\* the snippets callers send, and what the NER pass finds in each of them
\* (doc.ents, in document order)
SnippetPool ==
    { "OpenAI, Anthropic and Google shipped ChatGPT, Claude and Gemini in 2024",
      "Google and Microsoft met in Paris; Sam Altman opened DevDay with three demos",
      "Apple sells the Apple in Berlin since 2025, see Moby Dick, first edition",
      "Google, Google and Google",
      "" }

Ner(text) ==
    CASE text = "OpenAI, Anthropic and Google shipped ChatGPT, Claude and Gemini in 2024" ->
            << Ent("OpenAI", "ORG"), Ent("Anthropic", "ORG"), Ent("Google", "ORG"),
               Ent("ChatGPT", "PRODUCT"), Ent("Claude", "PRODUCT"),
               Ent("Gemini", "PRODUCT"), Ent("2024", "DATE") >>
      [] text = "Google and Microsoft met in Paris; Sam Altman opened DevDay with three demos" ->
            << Ent("Google", "ORG"), Ent("Microsoft", "ORG"), Ent("Paris", "GPE"),
               Ent("Sam Altman", "PERSON"), Ent("DevDay", "EVENT"),
               Ent("three", "CARDINAL") >>
      [] text = "Apple sells the Apple in Berlin since 2025, see Moby Dick, first edition" ->
            << Ent("Apple", "ORG"), Ent("Apple", "PRODUCT"), Ent("Berlin", "GPE"),
               Ent("2025", "DATE"), Ent("Moby Dick", "WORK_OF_ART"),
               Ent("first", "ORDINAL") >>
      [] text = "Google, Google and Google" ->
            << Ent("Google", "ORG"), Ent("Google", "ORG"), Ent("Google", "ORG") >>
      [] OTHER -> <<>>

IsAllowed(ent) == ent.label \in AllowedLabels

\* the list `entities` after the loops of lines 48-52
RECURSIVE EntityMentions(_)
EntityMentions(snippets) ==
    IF snippets = <<>> THEN <<>>
    ELSE EntityMentions(SubSeq(snippets, 1, Len(snippets) - 1))
         \o SelectSeq(Ner(snippets[Len(snippets)]), IsAllowed)

\* Counter(entities): the distinct elements in the order first met, each
\* with the number of its occurrences
RECURSIVE Counter(_)
Counter(seq) ==
    IF seq = <<>> THEN <<>>
    ELSE LET before == Counter(SubSeq(seq, 1, Len(seq) - 1))
             e == seq[Len(seq)]
         IN  IF \E i \in 1..Len(before) : before[i].entity = e
             THEN [i \in 1..Len(before) |->
                      IF before[i].entity = e
                      THEN [before[i] EXCEPT !.count = @ + 1]
                      ELSE before[i]]
             ELSE Append(before, [entity |-> e, count |-> 1])

\* seq without its i-th element
Without(seq, i) == SubSeq(seq, 1, i - 1) \o SubSeq(seq, i + 1, Len(seq))

FirstN(counter, n) == SubSeq(counter, 1, Min(n, Len(counter)))

\* Counter.most_common(n): the n elements with the highest counts, highest
\* first; elements with equal counts in the order first met
RECURSIVE MostCommon(_, _)
MostCommon(counter, n) ==
    IF n <= 0 \/ counter = <<>> THEN <<>>
    ELSE LET i == CHOOSE i \in 1..Len(counter) :
                      /\ \A j \in 1..Len(counter) : counter[j].count <= counter[i].count
                      /\ \A j \in 1..(i - 1) : counter[j].count < counter[i].count
         IN  <<counter[i]>> \o MostCommon(Without(counter, i), n - 1)

\* extract_entities(snippets)
ExtractEntities(snippets) ==
    MostCommon(Counter(EntityMentions(snippets)), TopEntities)

\* the lists of at most n snippets
SnippetLists(n) == UNION {[1..k -> SnippetPool] : k \in 0..n}

InitEntities ==
    /\ ee_snippets \in SnippetLists(MaxSnippets)
    /\ ee_out = <<>>
    /\ ee_done = FALSE

\* extract_entities is called and returns
ExtractEntitiesCall ==
    /\ ~ee_done
    /\ ee_out' = ExtractEntities(ee_snippets)
    /\ ee_done' = TRUE
    /\ UNCHANGED <<ee_snippets, searchVars, dedupVars, promptVars,
                   serviceVars, cliVars,
                   researchVars>>

NextEntities == ExtractEntitiesCall

--------------------------------------------------------------------------
(* Query classification and prompt building: web_search_summarizer.py *)

\* `word in text` for Python strings: word is a substring of text
Contains(text, word) ==
    \E i \in 1..(Len(text) - Len(word) + 1) :
        SubSeq(text, i, i + Len(word) - 1) = word

\* any(word in query_lower for word in words)
AnyWordIn(words, query_lower) == \E w \in words : Contains(query_lower, w)

ListWords == {"top", "list", "best", "worst", "ranking", "ranked",
              "10", "5", "3", "20"}

HowToWordsTypo == {"howto", "how do", "steps", "guide", "tutorial", "process"}

HowToWords == {"how to", "how do", "steps", "guide", "tutorial", "process"}

DefinitionWords == {"what is", "define", "definition", "meaning", "explain"}

ComparisonWords == {"vs", "versus", "compare", "difference", "better", "which"}

NewsWords == {"latest", "recent", "news", "update", "2024", "2025",
              "announcement"}

TechnicalWords == {"api", "code", "programming", "technical",
                   "implementation", "architecture"}

\* the seven templates create_search_agent_prompt can return
Templates == {"list", "how-to", "definition", "comparison", "news",
              "technical", "general"}

SelectTemplateNoDefault(query, rs) ==
    LET query_lower == Lower(query)
    IN  IF AnyWordIn(ListWords, query_lower) THEN "list"
        ELSE IF AnyWordIn(HowToWords, query_lower) THEN "how-to"
        ELSE IF AnyWordIn(DefinitionWords, query_lower) THEN "definition"
        ELSE IF AnyWordIn(ComparisonWords, query_lower) THEN "comparison"
        ELSE IF AnyWordIn(NewsWords, query_lower) THEN "news"
        ELSE IF AnyWordIn(TechnicalWords, query_lower) THEN "technical"
        ELSE "None"

SelectTemplateTechnicalEarly(query, rs) ==
    LET query_lower == Lower(query)
    IN  IF AnyWordIn(ListWords, query_lower) THEN "list"
        ELSE IF AnyWordIn(HowToWords, query_lower) THEN "how-to"
        ELSE IF AnyWordIn(DefinitionWords, query_lower) THEN "definition"
        ELSE IF AnyWordIn(TechnicalWords, query_lower) THEN "technical"
        ELSE IF AnyWordIn(ComparisonWords, query_lower) THEN "comparison"
        ELSE IF AnyWordIn(NewsWords, query_lower) THEN "news"
        ELSE "general"

\* the if/elif/else chain over is_list_query .. is_technical_query; the
\* search results are in scope but not read
SelectTemplate(query, rs) ==
    LET query_lower == Lower(query)
    IN  IF AnyWordIn(ListWords, query_lower) THEN "list"
        ELSE IF AnyWordIn(HowToWords, query_lower) THEN "how-to"
        ELSE IF AnyWordIn(DefinitionWords, query_lower) THEN "definition"
        ELSE IF AnyWordIn(ComparisonWords, query_lower) THEN "comparison"
        ELSE IF AnyWordIn(NewsWords, query_lower) THEN "news"
        ELSE IF AnyWordIn(TechnicalWords, query_lower) THEN "technical"
        ELSE "general"

\* create_search_agent_prompt: the template chosen, rendered with the query,
\* the entities of the snippets and the deduplicated results as context
CreateSearchAgentPrompt(query, rs) ==
    LET deduped_results == DeduplicateResults(rs)
        snippets == [i \in 1..Len(deduped_results) |-> deduped_results[i].snippet]
    IN  [template |-> SelectTemplate(query, rs),
         query |-> query,
         entities |-> ExtractEntities(snippets),
         context |-> deduped_results]

\* the value of prompt before any request
NoPrompt ==
    [template |-> "none", query |-> "", entities |-> <<>>, context |-> <<>>]

\* the queries callers send
Queries ==
    { "",
      "top 10 AI tools",
      "how to set up search",
      "What are the top 10 AI tools for 2024?",
      "How to implement web search in my application?",
      "What is web search integration?",
      "GPT-4o vs Claude vs Gemini comparison",
      "Latest AI developments and news",
      "Technical implementation of search APIs",
      "Best practices for AI development",
      "Which API is BETTER",
      "RECENT ARCHITECTURE",
      "Programming",
      "tell me about cats" }

\* the result lists callers send along
PromptResults ==
    { <<>>,
      << [title |-> "AI Tools 2024", url |-> "https://a.example/1",
          snippet |-> "OpenAI, Anthropic and Google shipped ChatGPT, Claude and Gemini in 2024"],
         [title |-> "AI tools 2024 ", url |-> "https://b.example/2",
          snippet |-> "Google, Google and Google"] >> }

\* a request's prompt is built: line 183
CreatePrompt(query, rs) ==
    /\ prompt' = CreateSearchAgentPrompt(query, rs)
    /\ prev_prompt' = prompt
    /\ UNCHANGED <<searchVars, dedupVars, entityVars, serviceVars, cliVars,
                   researchVars>>

NextPrompt == \E query \in Queries, rs \in PromptResults : CreatePrompt(query, rs)

--------------------------------------------------------------------------
(* Summarization service: web_search_summarizer.py *)

\* an optional string: None, or a string
None == <<>>

Some(s) == <<s>>

\* Python's `not v` for an optional string
Falsy(v) == v = None \/ v = Some("")

LlmKeys == <<"OPENAI_API_KEY", "ANTHROPIC_API_KEY", "GOOGLE_API_KEY">>

\* what os.environ.get returns for a key: nothing, an empty string, a key
EnvValues == {None, Some(""), Some("sk-live")}

CheckOnlyOpenAI(env) ==
    IF Falsy(env["OPENAI_API_KEY"]) THEN "OPENAI_API_KEY" ELSE ""

\* the key the validation of lines 27-32 stops at, "" when it passes
FirstMissing(env) ==
    IF Falsy(env["OPENAI_API_KEY"]) THEN "OPENAI_API_KEY"
    ELSE IF Falsy(env["ANTHROPIC_API_KEY"]) THEN "ANTHROPIC_API_KEY"
    ELSE IF Falsy(env["GOOGLE_API_KEY"]) THEN "GOOGLE_API_KEY"
    ELSE ""

CLAUDE_MODELS ==
    << "claude-3-sonnet-20240229", "claude-3-haiku-20240307",
       "claude-3-opus-20240229", "claude-2.1", "claude-instant-1.2" >>

GEMINI_MODELS ==
    << "gemini-1.5-pro", "gemini-1.5-flash", "gemini-pro", "gemini-1.0-pro" >>

\* the provider calls the branch for a requested model makes, in order
ModelVariants(model) ==
    CASE model = "gpt-4o" -> <<"gpt-4o">>
      [] model = "claude" -> CLAUDE_MODELS
      [] model = "gemini" -> GEMINI_MODELS
      [] OTHER -> <<>>

\* the two requests in flight
Requests == {1, 2}

FrameShared(r) == 1

\* each call of summarize has its own locals
Frame(r) == r

\* what a provider call ends in: an exception with its text, or a
\* completion, which may be empty
ProviderOutcomes ==
    { [ok |-> FALSE, text |-> "rate limit exceeded"],
      [ok |-> FALSE, text |-> "connection reset"],
      [ok |-> TRUE, text |-> ""],
      [ok |-> TRUE, text |-> "Here are the key findings."] }

\* what the NER pass does on a request's snippets
NerOutcomes == {"ok", "raises"}

\* the bodies posted to /summarize
SummarizeRequests ==
    [ query : {"top 10 AI tools", "tell me about cats"},
      results : { <<>>,
                  << [title |-> "AI Tools 2024", url |-> "https://a.example/1",
                      snippet |-> "OpenAI, Anthropic and Google shipped ChatGPT, Claude and Gemini in 2024"],
                     [title |-> "AI tools 2024 ", url |-> "https://b.example/2",
                      snippet |-> "Google, Google and Google"] >> },
      model : {"gpt-4o", "claude", "gemini", "mistral"} ]

NoRequest == [query |-> "", results |-> <<>>, model |-> "none"]

\* the locals of a call of summarize, before it starts
NoFrame ==
    [query |-> "", search_results |-> <<>>, model |-> "none",
     prompt |-> NoPrompt, summary |-> None, model_used |-> "none", tried |-> 0]

\* no response was sent yet
NoResponse == [status |-> 0, summary |-> "", model_used |-> ""]

\* the exception left the handler: the framework answers 500
InternalServerError == [status |-> 500, summary |-> "", model_used |-> ""]

\* SummarizeResponse(summary=..., model_used=...)
SummarizeResponse(summary, model_used) ==
    [status |-> 200, summary |-> summary, model_used |-> model_used]

UnableSummary(model) ==
    "Unable to generate summary with the selected model: " \o model

ErrorSummary(e) == "Error generating summary: " \o e

ModelUsedAlways(model, model_used, model_name, outcome) == model_name

\* model_used after a provider call: assigned after the call, in the loops
ModelUsedAfter(model, model_used, model_name, outcome) ==
    IF outcome.ok /\ model # "gpt-4o" THEN model_name ELSE model_used

\* the NER pass runs once per snippet: it cannot raise when there is none
NerCanRaise(rs) == DeduplicateResults(rs) # <<>>

\* what the handler keeps of a call's outcome: the exceptions caught in the
\* loops are logged only
Kept(model, outcome) ==
    IF outcome.ok \/ model = "gpt-4o" THEN outcome
    ELSE [outcome EXCEPT !.text = ""]

InitSummarize ==
    /\ environ \in [{LlmKeys[i] : i \in 1..Len(LlmKeys)} -> EnvValues]
    /\ service = "starting"
    /\ startup_error = ""
    /\ request = [r \in Requests |-> NoRequest]
    /\ ner = [r \in Requests |-> "none"]
    /\ rq_pc = [r \in Requests |-> "idle"]
    /\ handler = [r \in Requests |-> NoFrame]
    /\ attempts = [r \in Requests |-> <<>>]
    /\ response = [r \in Requests |-> NoResponse]

\* the module is imported: lines 21-32
Startup ==
    /\ service = "starting"
    /\ LET missing == FirstMissing(environ)
       IN  IF missing # ""
           THEN /\ service' = "aborted"
                /\ startup_error' = missing \o " environment variable not set"
           ELSE /\ service' = "serving"
                /\ startup_error' = ""
    /\ UNCHANGED <<environ, request, ner, rq_pc, handler, attempts, response,
                   searchVars, dedupVars, promptVars, entityVars, cliVars,
                   researchVars>>

\* a request arrives and its handler runs up to the try: lines 176-186
Receive(r, req, nerOutcome) ==
    /\ service = "serving"
    /\ rq_pc[r] = "idle"
    /\ nerOutcome = "raises" => NerCanRaise(req.results)
    /\ request' = [request EXCEPT ![r] = req]
    /\ ner' = [ner EXCEPT ![r] = nerOutcome]
    /\ IF nerOutcome = "raises"
       THEN /\ rq_pc' = [rq_pc EXCEPT ![r] = "done"]
            /\ handler' = [handler EXCEPT ![Frame(r)] =
                  [NoFrame EXCEPT !.query = req.query,
                                  !.search_results = req.results,
                                  !.model = req.model]]
            /\ response' = [response EXCEPT ![r] = InternalServerError]
       ELSE /\ rq_pc' = [rq_pc EXCEPT ![r] = "calling"]
            /\ handler' = [handler EXCEPT ![Frame(r)] =
                  [query |-> req.query,
                   search_results |-> req.results,
                   model |-> req.model,
                   prompt |-> CreateSearchAgentPrompt(req.query, req.results),
                   summary |-> None,
                   model_used |-> req.model,
                   tried |-> 0]]
            /\ UNCHANGED response
    /\ UNCHANGED <<environ, service, startup_error, attempts,
                   searchVars, dedupVars, promptVars, entityVars, cliVars,
                   researchVars>>

\* the handler calls the provider once; when that was its last call it
\* runs to its return: lines 188-246
Attempt(r, outcome) ==
    LET f == handler[Frame(r)]
        variants == ModelVariants(f.model)
    IN  /\ service = "serving"
        /\ rq_pc[r] = "calling"
        /\ f.tried < Len(variants)
        /\ LET model_name == variants[f.tried + 1]
               tried == f.tried + 1
               outer == ~outcome.ok /\ f.model = "gpt-4o"
               summary == IF outcome.ok THEN Some(outcome.text) ELSE f.summary
               model_used == ModelUsedAfter(f.model, f.model_used, model_name, outcome)
               leaves == outcome.ok \/ outer \/ tried = Len(variants)
               final == IF outer THEN ErrorSummary(outcome.text)
                        ELSE IF Falsy(summary) THEN UnableSummary(f.model)
                        ELSE summary[1]
           IN  /\ attempts' = [attempts EXCEPT ![r] =
                     Append(@, [model |-> model_name,
                                prompt |-> f.prompt,
                                outcome |-> Kept(f.model, outcome)])]
               /\ handler' = [handler EXCEPT ![Frame(r)] =
                     [f EXCEPT !.tried = tried,
                               !.summary = IF leaves THEN Some(final) ELSE summary,
                               !.model_used = model_used]]
               /\ IF leaves
                  THEN /\ rq_pc' = [rq_pc EXCEPT ![r] = "done"]
                       /\ response' = [response EXCEPT ![r] =
                             SummarizeResponse(final, model_used)]
                  ELSE UNCHANGED <<rq_pc, response>>
        /\ UNCHANGED <<environ, service, startup_error, request, ner,
                       searchVars, dedupVars, promptVars, entityVars, cliVars,
                   researchVars>>

\* no branch matches the requested model: lines 236-246
ReturnWithoutCall(r) ==
    LET f == handler[Frame(r)]
    IN  /\ service = "serving"
        /\ rq_pc[r] = "calling"
        /\ ModelVariants(f.model) = <<>>
        /\ handler' = [handler EXCEPT ![Frame(r)] =
              [f EXCEPT !.summary = Some(UnableSummary(f.model))]]
        /\ rq_pc' = [rq_pc EXCEPT ![r] = "done"]
        /\ response' = [response EXCEPT ![r] =
              SummarizeResponse(UnableSummary(f.model), f.model_used)]
        /\ UNCHANGED <<environ, service, startup_error, request, ner, attempts,
                       searchVars, dedupVars, promptVars, entityVars, cliVars,
                   researchVars>>

NextSummarize ==
    \/ Startup
    \/ \E r \in Requests, req \in SummarizeRequests, nerOutcome \in NerOutcomes :
          Receive(r, req, nerOutcome)
    \/ \E r \in Requests, outcome \in ProviderOutcomes : Attempt(r, outcome)
    \/ \E r \in Requests : ReturnWithoutCall(r)

--------------------------------------------------------------------------
(* Command line entry point: main.py *)

\* the status argparse exits with when it rejects the command line
ArgparseErrorCode == 2

\* the command lines: whether argparse accepts the flags and their values,
\* --topic (absent, empty or given), --show-providers, and --api-keys
\* (absent, a readable JSON file, or a file that cannot be read or parsed)
CommandLines ==
    [ argv_ok : BOOLEAN,
      topic : {None, Some(""), Some("AI in healthcare")},
      show_providers : BOOLEAN,
      api_keys : {"absent", "readable", "unreadable"} ]

\* how a step of the run ends: it returns, it raises an Exception, or the
\* user interrupts it
StepOutcomes == {"ok", "raises", "interrupted"}

NoRun ==
    [argv_ok |-> TRUE, topic |-> None, show_providers |-> FALSE,
     api_keys |-> "absent", pc |-> "off", failure |-> "none"]

\* the check of line 80
TopicMissing(args) == ~args.show_providers /\ Falsy(args.topic)

ExceptReturnZero(outcome) == 0

\* what main returns from its except clauses: lines 153-158
ExceptReturn(outcome) == 1

InitCli ==
    /\ cli \in {[argv_ok |-> a.argv_ok, topic |-> a.topic,
                 show_providers |-> a.show_providers, api_keys |-> a.api_keys,
                 pc |-> "start", failure |-> "none"] : a \in CommandLines}
    /\ exit_code = -1

\* the process ends with this status
Exit(code, why) ==
    /\ cli' = [cli EXCEPT !.pc = "exited", !.failure = why]
    /\ exit_code' = code

\* parser.parse_args(): line 77
ParseArgs ==
    /\ cli.pc = "start"
    /\ IF cli.argv_ok
       THEN cli' = [cli EXCEPT !.pc = "parsed"] /\ UNCHANGED exit_code
       ELSE Exit(ArgparseErrorCode, "bad invocation")
    /\ UNCHANGED <<searchVars, dedupVars, promptVars, entityVars, serviceVars,
                   researchVars>>

\* the topic check: lines 80-81
CheckTopic ==
    /\ cli.pc = "parsed"
    /\ IF TopicMissing(cli)
       THEN Exit(ArgparseErrorCode, "bad invocation")
       ELSE cli' = [cli EXCEPT !.pc = "in try"] /\ UNCHANGED exit_code
    /\ UNCHANGED <<searchVars, dedupVars, promptVars, entityVars, serviceVars,
                   researchVars>>

\* the --api-keys file is loaded: lines 84-89
LoadApiKeys(outcome) ==
    /\ cli.pc = "in try"
    /\ outcome = "raises" <=> cli.api_keys = "unreadable"
    /\ outcome = "interrupted" => cli.api_keys = "readable"
    /\ IF outcome = "ok"
       THEN cli' = [cli EXCEPT !.pc = "keys loaded"] /\ UNCHANGED exit_code
       ELSE Exit(ExceptReturn(outcome),
                 IF outcome = "raises" THEN "api keys" ELSE "interrupt")
    /\ UNCHANGED <<searchVars, dedupVars, promptVars, entityVars, serviceVars,
                   researchVars>>

\* DeepResearchSystem(api_keys=api_keys): lines 95-97
Initialize(outcome) ==
    /\ cli.pc = "keys loaded"
    /\ IF outcome = "ok"
       THEN cli' = [cli EXCEPT !.pc = "initialized"] /\ UNCHANGED exit_code
       ELSE Exit(ExceptReturn(outcome),
                 IF outcome = "raises" THEN "initialization" ELSE "interrupt")
    /\ UNCHANGED <<searchVars, dedupVars, promptVars, entityVars, serviceVars,
                   researchVars>>

\* --show-providers: lines 100-108
ShowProviders(outcome) ==
    /\ cli.pc = "initialized"
    /\ cli.show_providers
    /\ IF outcome = "ok"
       THEN Exit(0, "none")
       ELSE Exit(ExceptReturn(outcome),
                 IF outcome = "raises" THEN "providers" ELSE "interrupt")
    /\ UNCHANGED <<searchVars, dedupVars, promptVars, entityVars, serviceVars,
                   researchVars>>

\* the research run and the printing of its results: lines 111-151
ConductResearch(outcome) ==
    /\ cli.pc = "initialized"
    /\ ~cli.show_providers
    /\ IF outcome = "ok"
       THEN Exit(0, "none")
       ELSE Exit(ExceptReturn(outcome),
                 IF outcome = "raises" THEN "research" ELSE "interrupt")
    /\ UNCHANGED <<searchVars, dedupVars, promptVars, entityVars, serviceVars,
                   researchVars>>

NextCli ==
    \/ ParseArgs
    \/ CheckTopic
    \/ \E outcome \in StepOutcomes : LoadApiKeys(outcome)
    \/ \E outcome \in StepOutcomes : Initialize(outcome)
    \/ \E outcome \in StepOutcomes : ShowProviders(outcome)
    \/ \E outcome \in StepOutcomes : ConductResearch(outcome)

--------------------------------------------------------------------------
(* Configuration and research runs: config.py, research_system.py, main.py *)

AiProviders == <<"openai", "anthropic", "google">>

\* the environment variable holding the key of an AI provider
KeyOf(provider) ==
    CASE provider = "openai" -> "OPENAI_API_KEY"
      [] provider = "anthropic" -> "ANTHROPIC_API_KEY"
      [] provider = "google" -> "GOOGLE_API_KEY"

\* the environment variables read or written
EnvNames ==
    {"OPENAI_API_KEY", "ANTHROPIC_API_KEY", "GOOGLE_API_KEY", "TAVILY_API_KEY",
     "PREFERRED_AI_PROVIDER"}

\* the values PREFERRED_AI_PROVIDER has when the process starts
PreferredValues == {None, Some("openai"), Some("Anthropic"), Some("google")}

\* the environments a process starts in
Environments ==
    {env \in [EnvNames -> EnvValues \cup PreferredValues] :
        /\ \A i \in 1..Len(LlmKeys) : env[LlmKeys[i]] \in EnvValues
        /\ env["TAVILY_API_KEY"] = None
        /\ env["PREFERRED_AI_PROVIDER"] \in PreferredValues}

\* os.getenv(name, default)
GetEnv(env, name, default) == IF env[name] = None THEN default ELSE env[name][1]

Roles == {"manager", "researcher", "analyst", "editor", "reporter"}

\* the class attributes of Config before config.py is imported
NoConfig ==
    [OPENAI_API_KEY |-> None, ANTHROPIC_API_KEY |-> None, GOOGLE_API_KEY |-> None,
     PREFERRED_AI_PROVIDER |-> "", AGENT_MODELS |-> [role \in Roles |-> ""],
     OPENAI_MODEL |-> "", ANTHROPIC_MODEL |-> "", GOOGLE_MODEL |-> ""]

\* the class body of Config, evaluated once when config.py is imported
ConfigClass(env) ==
    LET preferred == Lower(GetEnv(env, "PREFERRED_AI_PROVIDER", "openai"))
    IN  [OPENAI_API_KEY |-> env["OPENAI_API_KEY"],
         ANTHROPIC_API_KEY |-> env["ANTHROPIC_API_KEY"],
         GOOGLE_API_KEY |-> env["GOOGLE_API_KEY"],
         PREFERRED_AI_PROVIDER |-> preferred,
         AGENT_MODELS |-> [role \in Roles |-> preferred],
         OPENAI_MODEL |-> "gpt-4",
         ANTHROPIC_MODEL |-> "claude-3-sonnet-20240229",
         GOOGLE_MODEL |-> "gemini-pro"]

\* Config.get_agent_config(agent_type)["model"]
GetAgentModel(cfg, agent_type) ==
    LET provider == IF agent_type \in DOMAIN cfg.AGENT_MODELS
                    THEN cfg.AGENT_MODELS[agent_type]
                    ELSE cfg.PREFERRED_AI_PROVIDER
    IN  CASE provider = "openai" -> cfg.OPENAI_MODEL
          [] provider = "anthropic" -> cfg.ANTHROPIC_MODEL
          [] provider = "google" -> cfg.GOOGLE_MODEL
          [] OTHER -> cfg.OPENAI_MODEL

\* Config.get_available_providers()
GetAvailableProviders(cfg) ==
    [p \in {"openai", "anthropic", "google"} |->
        CASE p = "openai" -> ~Falsy(cfg.OPENAI_API_KEY)
          [] p = "anthropic" -> ~Falsy(cfg.ANTHROPIC_API_KEY)
          [] p = "google" -> ~Falsy(cfg.GOOGLE_API_KEY)]

\* Config.get_provider_info()
GetProviderInfo(cfg) ==
    [preferred_provider |-> cfg.PREFERRED_AI_PROVIDER,
     available_providers |-> GetAvailableProviders(cfg),
     current_model |-> GetAgentModel(cfg, "manager")]

\* nothing was reported yet
NoInfo ==
    [preferred_provider |-> "",
     available_providers |-> [p \in {"openai", "anthropic", "google"} |-> FALSE],
     current_model |-> ""]

\* the api_keys dictionaries given to DeepResearchSystem: none, or one key
ApiKeyDicts ==
    { {}, {"OPENAI_API_KEY"}, {"ANTHROPIC_API_KEY"}, {"GOOGLE_API_KEY"},
      {"TAVILY_API_KEY"} }

\* what the caller passed: --provider and the api_keys dictionary
NothingGiven == [provider |-> "none", api_keys |-> {}]

\* the output formats the system declares
OUTPUT_FORMATS == <<"markdown", "pdf", "html", "json">>

\* the documented depths and one that is not
Depths == {"basic", "comprehensive", "expert", "quick"}

\* how a call of conduct_research goes: it returns, the crew raises, or
\* writing the report raises
CallOutcomes == {"ok", "crew raises", "save raises"}

DigitChars == "0123456789"

\* c.isalnum() or c in (' ', '-', '_')
IsSafeChar(c) ==
    \/ Contains(UpperChars, c)
    \/ Contains(LowerChars, c)
    \/ Contains(DigitChars, c)
    \/ c \in {" ", "-", "_"}

\* str.rstrip()
RECURSIVE RStrip(_)
RStrip(s) ==
    IF s = "" THEN ""
    ELSE IF SubSeq(s, Len(s), Len(s)) \in Whitespace
         THEN RStrip(SubSeq(s, 1, Len(s) - 1))
         ELSE s

\* the characters of s that are safe in a file name
RECURSIVE KeepSafe(_)
KeepSafe(s) ==
    IF s = "" THEN ""
    ELSE (IF IsSafeChar(SubSeq(s, 1, 1)) THEN SubSeq(s, 1, 1) ELSE "")
         \o KeepSafe(SubSeq(s, 2, Len(s)))

\* str.replace(' ', '_')
RECURSIVE SpacesToUnderscores(_)
SpacesToUnderscores(s) ==
    IF s = "" THEN ""
    ELSE (IF SubSeq(s, 1, 1) = " " THEN "_" ELSE SubSeq(s, 1, 1))
         \o SpacesToUnderscores(SubSeq(s, 2, Len(s)))

\* topic_safe of _save_results
TopicSafe(topic) == SpacesToUnderscores(RStrip(KeepSafe(topic)))

\* the file "research_outputs/<topic_safe>_<timestamp>.<ext>"
ReportFile(topic, stamp, ext) ==
    [dir |-> "research_outputs", topic_safe |-> TopicSafe(topic),
     timestamp |-> stamp, ext |-> ext]

SavedFilesAnyFormat(topic, stamp, output_format) ==
    {ReportFile(topic, stamp, output_format)}

\* the files _save_results writes
SavedFiles(topic, stamp, output_format) ==
    CASE output_format = "json" -> {ReportFile(topic, stamp, "json")}
      [] output_format = "markdown" -> {ReportFile(topic, stamp, "md")}
      [] output_format = "html" -> {ReportFile(topic, stamp, "html")}
      [] OTHER -> {}

\* a task of the crew: what it does and the agent it is given to
Task(name, agent) == [task |-> name, agent |-> agent]

CreateResearchTasksExpertOnly(research_depth) ==
    << Task("planning", "manager"), Task("initial research", "researcher") >>
    \o (IF research_depth = "expert"
        THEN << Task("deep dive", "researcher") >> ELSE <<>>)
    \o << Task("data analysis", "analyst"), Task("content editing", "editor"),
          Task("report generation", "reporter"), Task("final review", "manager") >>

\* DeepResearchSystem._create_research_tasks
CreateResearchTasks(research_depth) ==
    << Task("planning", "manager"), Task("initial research", "researcher") >>
    \o (IF research_depth \in {"comprehensive", "expert"}
        THEN << Task("deep dive", "researcher") >> ELSE <<>>)
    \o << Task("data analysis", "analyst"), Task("content editing", "editor"),
          Task("report generation", "reporter"), Task("final review", "manager") >>

\* DeepResearchSystem._process_results
ProcessResults(cfg, topic, research_depth, target_audience) ==
    [topic |-> topic, research_depth |-> research_depth,
     target_audience |-> target_audience,
     ai_provider |-> cfg.PREFERRED_AI_PROVIDER,
     ai_model |-> GetAgentModel(cfg, "manager")]

HistoryAppendedAlways(history, outcome, entry) ==
    IF outcome # "crew raises" THEN Append(history, entry) ELSE history

\* research_history after a call: the append of lines 133-137 is reached
\* only when nothing before it raised
HistoryAfterCall(history, outcome, entry) ==
    IF outcome = "ok" THEN Append(history, entry) ELSE history

\* no call of conduct_research was made yet
NoCall ==
    [topic |-> "", research_depth |-> "", output_format |-> "",
     save_results |-> FALSE, status |-> "none", failure |-> "none",
     tasks |-> <<>>, process |-> "", agent_models |-> [role \in Roles |-> ""],
     results |-> ProcessResults(NoConfig, "", "", ""), saved_message |-> None]

\* the system is not used
IdleResearch ==
    /\ os_environ = [name \in EnvNames |-> None]
    /\ config_cls = NoConfig
    /\ rs_state = "off"
    /\ given = NothingGiven
    /\ provider_info = NoInfo
    /\ research_history = <<>>
    /\ files = {}
    /\ last_call = NoCall
    /\ n_calls = 0

\* a process starts in some environment
InitConfig ==
    /\ os_environ \in Environments
    /\ config_cls = NoConfig
    /\ rs_state = "start"
    /\ given = NothingGiven
    /\ provider_info = NoInfo
    /\ research_history = <<>>
    /\ files = {}
    /\ last_call = NoCall
    /\ n_calls = 0

\* a DeepResearchSystem constructed in a process that had the OpenAI key
\* and a preferred provider in its environment
InitResearch ==
    /\ os_environ \in {env \in Environments :
          /\ env["OPENAI_API_KEY"] = Some("sk-live")
          /\ env["ANTHROPIC_API_KEY"] = None
          /\ env["GOOGLE_API_KEY"] = None
          /\ env["PREFERRED_AI_PROVIDER"] \in {None, Some("google")}}
    /\ config_cls = ConfigClass(os_environ)
    /\ rs_state = "ready"
    /\ given = NothingGiven
    /\ provider_info = GetProviderInfo(ConfigClass(os_environ))
    /\ research_history = <<>>
    /\ files = {}
    /\ last_call = NoCall
    /\ n_calls = 0

\* config.py is imported: the class body reads the environment
ImportConfig ==
    /\ rs_state = "start"
    /\ config_cls' = ConfigClass(os_environ)
    /\ rs_state' = "imported"
    /\ UNCHANGED <<os_environ, given, provider_info, research_history, files,
                   last_call, n_calls, searchVars, dedupVars, promptVars,
                   entityVars, serviceVars, cliVars>>

\* main.py, --provider: lines 91-93
SetPreferredProvider(provider) ==
    /\ rs_state = "imported"
    /\ given.provider = "none"
    /\ os_environ' = [os_environ EXCEPT !["PREFERRED_AI_PROVIDER"] = Some(provider)]
    /\ given' = [given EXCEPT !.provider = provider]
    /\ UNCHANGED <<config_cls, rs_state, provider_info, research_history, files,
                   last_call, n_calls, searchVars, dedupVars, promptVars,
                   entityVars, serviceVars, cliVars>>

\* DeepResearchSystem(api_keys): lines 20-42 and 52-66
Construct(api_keys) ==
    /\ rs_state = "imported"
    /\ given' = [given EXCEPT !.api_keys = api_keys]
    /\ os_environ' = [name \in EnvNames |->
                         IF name \in api_keys THEN Some("sk-given")
                         ELSE os_environ[name]]
    /\ LET available_providers == GetAvailableProviders(config_cls)
       IN  IF \E p \in DOMAIN available_providers : available_providers[p]
           THEN /\ rs_state' = "ready"
                /\ provider_info' = GetProviderInfo(config_cls)
           ELSE /\ rs_state' = "failed"
                /\ UNCHANGED provider_info
    /\ research_history' = <<>>
    /\ UNCHANGED <<config_cls, files, last_call, n_calls, searchVars, dedupVars,
                   promptVars, entityVars, serviceVars, cliVars>>

\* conduct_research: lines 68-146, with _create_research_tasks,
\* _process_results and _save_results
CallConductResearch(topic, research_depth, target_audience, output_format, save_results, outcome) ==
    /\ rs_state = "ready"
    /\ n_calls < MaxCalls
    /\ outcome = "save raises" => save_results
    /\ LET stamp == n_calls + 1
           research_results ==
               ProcessResults(config_cls, topic, research_depth, target_audience)
           saved == outcome = "ok" /\ save_results
           entry == [topic |-> topic, timestamp |-> stamp,
                     results |-> research_results]
       IN  /\ n_calls' = stamp
           /\ files' = IF saved
                       THEN files \cup SavedFiles(topic, stamp, output_format)
                       ELSE files
           /\ research_history' =
                  HistoryAfterCall(research_history, outcome, entry)
           /\ last_call' =
                  [topic |-> topic,
                   research_depth |-> research_depth,
                   output_format |-> output_format,
                   save_results |-> save_results,
                   status |-> IF outcome = "ok" THEN "returned" ELSE "raised",
                   failure |-> IF outcome = "ok" THEN "none" ELSE outcome,
                   tasks |-> CreateResearchTasks(research_depth),
                   process |-> "sequential",
                   agent_models |-> [role \in Roles |-> GetAgentModel(config_cls, role)],
                   results |-> IF outcome = "crew raises"
                               THEN NoCall.results ELSE research_results,
                   saved_message |-> IF saved
                                     THEN Some(ReportFile(topic, stamp, output_format))
                                     ELSE None]
    /\ UNCHANGED <<os_environ, config_cls, rs_state, given, provider_info,
                   searchVars, dedupVars, promptVars, entityVars, serviceVars,
                   cliVars>>

\* a process imports the configuration, builds the system and runs research
NextConfig ==
    \/ ImportConfig
    \/ \E i \in 1..Len(AiProviders) : SetPreferredProvider(AiProviders[i])
    \/ \E api_keys \in ApiKeyDicts : Construct(api_keys)
    \/ CallConductResearch("AI ethics", "basic", "general", "markdown", FALSE, "ok")

\* calls of conduct_research on one system
NextResearch ==
    \E research_depth \in Depths, i \in 1..Len(OUTPUT_FORMATS),
       save_results \in BOOLEAN, outcome \in CallOutcomes :
          CallConductResearch("Is AI safe? ", research_depth, "general",
                              OUTPUT_FORMATS[i], save_results, outcome)

--------------------------------------------------------------------------
(* Specifications *)

\* no search is in progress
IdleSearch ==
    /\ Config = [e \in {"tavily", "serper", "google", "brave"} |-> FALSE]
    /\ pc = "idle"
    /\ max_results = 0
    /\ preferred_engine = "auto"
    /\ search_engines = <<>>
    /\ idx = 1
    /\ results = <<>>
    /\ calls = <<>>
    /\ returned = <<>>
    /\ raised = FALSE

\* no deduplication and no prompt request is in progress
IdleDedup == dd_in = <<>> /\ dd_out = <<>>

IdlePrompt == prompt = NoPrompt /\ prev_prompt = NoPrompt

\* no entity extraction is in progress
IdleEntities == ee_snippets = <<>> /\ ee_out = <<>> /\ ee_done = FALSE

\* the summarization service is not started
IdleSummarize ==
    /\ environ = [k \in {LlmKeys[i] : i \in 1..Len(LlmKeys)} |-> None]
    /\ service = "off"
    /\ startup_error = ""
    /\ request = [r \in Requests |-> NoRequest]
    /\ ner = [r \in Requests |-> "none"]
    /\ rq_pc = [r \in Requests |-> "idle"]
    /\ handler = [r \in Requests |-> NoFrame]
    /\ attempts = [r \in Requests |-> <<>>]
    /\ response = [r \in Requests |-> NoResponse]

\* main.py is not run
IdleCli == cli = NoRun /\ exit_code = -1

\* everything but the search aggregator is idle
IdleButSearch ==
    /\ IdleDedup /\ IdlePrompt /\ IdleEntities /\ IdleSummarize /\ IdleCli
    /\ IdleResearch

Init == InitSearch /\ IdleButSearch

Next == NextSearch

\* the search aggregator serving one request
Spec == Init /\ [][Next]_vars

\* deduplicate_results applied to every list of at most MaxResults results
InitDedupSpec ==
    /\ IdleSearch /\ InitDedup /\ IdlePrompt /\ IdleEntities /\ IdleSummarize /\ IdleCli
    /\ IdleResearch

SpecDedup == InitDedupSpec /\ [][NextDedup]_vars

InitPromptSpec ==
    /\ IdleSearch /\ IdleDedup /\ IdlePrompt /\ IdleEntities /\ IdleSummarize /\ IdleCli
    /\ IdleResearch

\* create_search_agent_prompt serving one request after another
SpecPrompt == InitPromptSpec /\ [][NextPrompt]_vars

InitEntitiesSpec ==
    /\ IdleSearch /\ IdleDedup /\ IdlePrompt /\ InitEntities /\ IdleSummarize /\ IdleCli
    /\ IdleResearch

\* extract_entities applied to every list of at most MaxSnippets snippets
SpecEntities == InitEntitiesSpec /\ [][NextEntities]_vars

InitSummarizeSpec ==
    /\ IdleSearch /\ IdleDedup /\ IdlePrompt /\ IdleEntities /\ InitSummarize /\ IdleCli
    /\ IdleResearch

\* the summarization service from its start, serving two requests
SpecSummarize == InitSummarizeSpec /\ [][NextSummarize]_vars

InitCliSpec ==
    /\ IdleSearch /\ IdleDedup /\ IdlePrompt /\ IdleEntities /\ IdleSummarize /\ InitCli
    /\ IdleResearch

\* one run of main.py on every command line
SpecCli == InitCliSpec /\ [][NextCli]_vars

InitConfigSpec ==
    /\ IdleSearch /\ IdleDedup /\ IdlePrompt /\ IdleEntities /\ IdleSummarize
    /\ IdleCli /\ InitConfig

\* a process from its start: import, --provider, construction, research
SpecConfig == InitConfigSpec /\ [][NextConfig]_vars

InitResearchSpec ==
    /\ IdleSearch /\ IdleDedup /\ IdlePrompt /\ IdleEntities /\ IdleSummarize
    /\ IdleCli /\ InitResearch

\* up to MaxCalls calls of conduct_research on one constructed system
SpecResearch == InitResearchSpec /\ [][NextResearch]_vars

--------------------------------------------------------------------------
(* Claims about search aggregation *)

Done == pc = "done"

NoCredentials == \A e \in DOMAIN Config : ~Config[e]

AllCallsRaised == \A i \in 1..Len(calls) : ~calls[i].ok

\* the results of the successful calls so far, in call order
RECURSIVE Gathered(_)
Gathered(cs) ==
    IF cs = <<>> THEN <<>>
    ELSE Gathered(SubSeq(cs, 1, Len(cs) - 1))
         \o (IF cs[Len(cs)].ok
             THEN EngineResults(cs[Len(cs)].engine, cs[Len(cs)].got)
             ELSE <<>>)

\* C1: for every cap max_results >= 0, every preference and every combination
\* of provider outcomes (a provider may return more than it was asked for),
\* the list _run returns has at most max_results elements.
C1_ReturnsAtMostCap ==
    (Done /\ ~raised /\ max_results >= 0) => Len(returned) <= max_results

\* a provider returned more than it was asked for and the result was cut
C1_Witness ==
    /\ Done
    /\ max_results >= 1
    /\ \E i \in 1..Len(calls) : calls[i].ok /\ calls[i].got > calls[i].asked
    /\ Len(results) > max_results
    /\ Len(returned) = max_results

C3_FailureIsSkipped ==
    /\ ~raised
    /\ results = Gathered(calls)
    /\ (Done /\ Len(results) < max_results) =>
          \A j \in 1..Len(search_engines) :
              Dispatches(Config, search_engines[j]) =>
                  \E i \in 1..Len(calls) : calls[i].pos = j

\* a provider returned results, the next one raised, a later one was tried
\* and the results of both successful calls are returned
C3_Witness ==
    /\ Done
    /\ Len(calls) = 3
    /\ calls[1].ok /\ calls[1].got = 1
    /\ ~calls[2].ok
    /\ calls[3].ok /\ calls[3].got = 1
    /\ returned = EngineResults(calls[1].engine, 1)
                    \o EngineResults(calls[3].engine, 1)

\* C4: providers are called in the order of the engine list, and no provider
\* is called once the number of gathered results has reached max_results.
C4_InOrderAndShortCircuit ==
    /\ \A i \in 1..Len(calls) :
          /\ calls[i].pos \in 1..Len(search_engines)
          /\ calls[i].engine = search_engines[calls[i].pos]
          /\ calls[i].had < max_results
    /\ \A i, j \in 1..Len(calls) : i < j => calls[i].pos < calls[j].pos
    /\ \A i \in 1..Len(calls) :
          i < Len(calls) => calls[i].had + calls[i].got < max_results

\* the cap was met before the end of the list: a later provider that would
\* have been called is not queried
C4_Witness ==
    /\ Done
    /\ max_results >= 1
    /\ Len(results) >= max_results
    /\ idx <= Len(search_engines)
    /\ Dispatches(Config, search_engines[idx])
    /\ \A i \in 1..Len(calls) : calls[i].pos < idx

NoDuplicates(seq) == \A i, j \in 1..Len(seq) : i # j => seq[i] # seq[j]

PriorityOrder == <<"tavily", "serper", "google", "brave", "duckduckgo">>

IsConfiguredOrKeyless(e) == e = "duckduckgo" \/ Config[e]

\* C5: the engine list is duplicate-free and ends with duckduckgo; in auto
\* mode it is the credentialed subsequence of [tavily, serper, google, brave]
\* followed by duckduckgo; with an explicit preference P it is
\* [P, duckduckgo], or [duckduckgo] when P is duckduckgo.
C5_EngineList ==
    pc # "idle" =>
        /\ NoDuplicates(search_engines)
        /\ Len(search_engines) >= 1
        /\ search_engines[Len(search_engines)] = "duckduckgo"
        /\ preferred_engine = "auto" =>
              search_engines = SelectSeq(PriorityOrder, IsConfiguredOrKeyless)
        /\ (preferred_engine # "auto" /\ preferred_engine # "duckduckgo") =>
              search_engines = <<preferred_engine, "duckduckgo">>
        /\ preferred_engine = "duckduckgo" => search_engines = <<"duckduckgo">>

\* auto mode with serper and brave configured, tavily and google not
C5_Witness ==
    /\ pc = "loop"
    /\ preferred_engine = "auto"
    /\ Config["serper"] /\ Config["brave"]
    /\ ~Config["tavily"] /\ ~Config["google"]
    /\ search_engines = <<"serper", "brave", "duckduckgo">>

\* C6: a provider whose API key is not configured is never called, in auto
\* mode and as the explicitly preferred engine, and the search still
\* completes without raising, using the remaining providers.
C6_UnconfiguredNeverCalled ==
    /\ \A i \in 1..Len(calls) :
          calls[i].engine = "duckduckgo" \/ HasKey(Config, calls[i].engine)
    /\ ~raised
    /\ pc = "loop" => ENABLED NextSearch
    /\ (Done /\ max_results >= 1 /\ preferred_engine \in DOMAIN Config
             /\ ~Config[preferred_engine]) =>
          /\ Len(calls) = 1
          /\ calls[1].engine = "duckduckgo"
          /\ returned = SliceTo(Gathered(calls), max_results)

\* google is preferred but has no key: it is skipped and duckduckgo answers
C6_Witness ==
    /\ Done
    /\ preferred_engine = "google"
    /\ ~Config["google"]
    /\ Len(calls) = 1
    /\ calls[1].engine = "duckduckgo"
    /\ Len(returned) >= 1

--------------------------------------------------------------------------
(* Claims about deduplication *)

\* the output of the first application
FirstOutput == dd_out[1]

Applied == Len(dd_out) >= 1

\* C7: for any two distinct surviving results, the similarity ratio of their
\* normalized titles is not above the threshold, in either argument order.
C7_NoSimilarSurvivors ==
    Applied =>
        \A i, j \in 1..Len(FirstOutput) :
            i # j => ~RatioExceeds(Lower(Strip(FirstOutput[i].title)),
                                   Lower(Strip(FirstOutput[j].title)))

\* the indices of the input that a greedy first-seen-wins filter keeps:
\* i is kept exactly when no kept index before it is similar to it
KeptIndices(rs) ==
    LET n == Len(rs)
        key == [i \in 1..n |-> Lower(Strip(rs[i].title))]
        sim == [i \in 1..n, j \in 1..n |->
                    j < i /\ RatioExceeds(key[i], key[j])]
    IN  {K \in SUBSET (1..n) :
            \A i \in 1..n :
                i \in K <=> ~(\E j \in K : j < i /\ sim[i, j])}

\* the subsequence of rs at the indices in K
RECURSIVE Pick(_, _, _)
Pick(rs, K, i) ==
    IF i > Len(rs) THEN <<>>
    ELSE (IF i \in K THEN <<rs[i]>> ELSE <<>>) \o Pick(rs, K, i + 1)

\* C8: deduplicate_results applied to its own output returns that output,
\* element for element and in the same order.
C8_Idempotent ==
    Len(dd_out) >= 2 => dd_out[2] = dd_out[1]

\* the first application dropped something and kept at least two results
C8_Witness ==
    /\ Len(dd_out) >= 2
    /\ Len(dd_out[1]) < Len(dd_in)
    /\ Len(dd_out[1]) >= 2
    /\ dd_out[2] = dd_out[1]

\* C9: the output is an order-preserving subsequence of the input, the first
\* input result is kept, and a result is dropped exactly when an earlier
\* kept result has a normalized title whose similarity to it is above the
\* threshold; a result similar only to an earlier dropped result is kept.
\* (Stated of the state right after the first application: dd_in and the
\* first output do not change afterwards.)
C9_FirstSeenWins ==
    Len(dd_out) = 1 =>
        /\ \E K \in KeptIndices(dd_in) : FirstOutput = Pick(dd_in, K, 1)
        /\ dd_in # <<>> => (FirstOutput # <<>> /\ FirstOutput[1] = dd_in[1])

\* the second result is dropped for the first; the third is similar to the
\* dropped second only, and is kept
C9_Witness ==
    /\ Applied
    /\ Len(dd_in) = 3
    /\ RatioExceeds(TitleKey(dd_in[2].title), TitleKey(dd_in[1].title))
    /\ RatioExceeds(TitleKey(dd_in[3].title), TitleKey(dd_in[2].title))
    /\ ~RatioExceeds(TitleKey(dd_in[3].title), TitleKey(dd_in[1].title))
    /\ FirstOutput = <<dd_in[1], dd_in[3]>>

--------------------------------------------------------------------------
(* Claims about query classification *)

\* C10: every query, the empty one included, selects exactly one of the
\* seven templates, and the same query always selects the same template,
\* whatever results come with it.
C10_TotalAndDeterministic ==
    /\ prompt # NoPrompt => prompt.template \in Templates
    /\ (prompt # NoPrompt /\ prev_prompt # NoPrompt
            /\ prompt.query = prev_prompt.query) =>
          prompt.template = prev_prompt.template

\* the empty query, sent twice with different results, selected the general
\* template both times
C10_Witness ==
    /\ prompt # NoPrompt /\ prev_prompt # NoPrompt
    /\ prompt.query = "" /\ prev_prompt.query = ""
    /\ prompt.context # prev_prompt.context
    /\ prompt.template = "general" /\ prev_prompt.template = "general"

\* the categories in the order their keyword sets are tested
CategoryOrder == <<"list", "how-to", "definition", "comparison", "news",
                   "technical">>

CategoryWords ==
    [c \in {"list", "how-to", "definition", "comparison", "news", "technical"} |->
        CASE c = "list" -> {"top", "list", "best", "worst", "ranking",
                            "ranked", "10", "5", "3", "20"}
          [] c = "how-to" -> {"how to", "how do", "steps", "guide",
                              "tutorial", "process"}
          [] c = "definition" -> {"what is", "define", "definition",
                                  "meaning", "explain"}
          [] c = "comparison" -> {"vs", "versus", "compare", "difference",
                                  "better", "which"}
          [] c = "news" -> {"latest", "recent", "news", "update", "2024",
                            "2025", "announcement"}
          [] c = "technical" -> {"api", "code", "programming", "technical",
                                 "implementation", "architecture"}]

\* the positions in CategoryOrder of the categories with a keyword that is
\* a substring of the lower-cased query
MatchingCategories(query) ==
    {k \in 1..Len(CategoryOrder) :
        \E w \in CategoryWords[CategoryOrder[k]] :
            \E i \in 1..Len(query) :
                i + Len(w) - 1 <= Len(query)
                /\ Lower(SubSeq(query, i, i + Len(w) - 1)) = w}

\* C11: the selected category is the earliest one, in the order list, how-to,
\* definition, comparison, news, technical, with a keyword in the
\* lower-cased query; general is selected exactly when no set has one.
C11_FirstMatchWins ==
    prompt # NoPrompt =>
        LET matching == MatchingCategories(prompt.query)
        IN  /\ matching # {} =>
                  \E k \in matching :
                      /\ \A k2 \in matching : k <= k2
                      /\ prompt.template = CategoryOrder[k]
            /\ (prompt.template = "general") <=> (matching = {})

\* a query with keywords of comparison and of technical, and not of an
\* earlier category: comparison is selected
C11_Witness ==
    /\ prompt # NoPrompt
    /\ MatchingCategories(prompt.query) = {4, 6}
    /\ prompt.template = "comparison"

\* C12: "top 10 AI tools" is classified as list and "how to set up search"
\* as how-to.
C12_SpecExamples ==
    /\ prompt.query = "top 10 AI tools" => prompt.template = "list"
    /\ (prompt # NoPrompt /\ prompt.query = "how to set up search") =>
          prompt.template = "how-to"

\* both example queries have been classified, one after the other
C12_Witness ==
    /\ prev_prompt.query = "top 10 AI tools" /\ prev_prompt.template = "list"
    /\ prompt.query = "how to set up search" /\ prompt.template = "how-to"

--------------------------------------------------------------------------
(* Further claims about search aggregation *)

\* C20: within one _run request each provider is called at most once,
\* whether its call succeeded, returned too few results or raised, so the
\* request makes at most as many provider calls as the engine list has
\* entries.
C20_NoRetry ==
    /\ \A i, j \in 1..Len(calls) : i # j => calls[i].engine # calls[j].engine
    /\ Len(calls) <= Len(search_engines)

\* three engines: one raised, one returned too few results, one succeeded;
\* each was called once
C20_Witness ==
    /\ Done
    /\ Len(search_engines) = 3
    /\ Len(calls) = 3
    /\ ~calls[1].ok
    /\ calls[2].ok /\ calls[2].got < calls[2].asked
    /\ calls[3].ok /\ calls[3].got >= calls[3].asked

--------------------------------------------------------------------------
(* Claims about entity extraction *)

\* every entity the NER pass reported in the snippets, allowed or not
RECURSIVE RawMentions(_)
RawMentions(snippets) ==
    IF snippets = <<>> THEN <<>>
    ELSE Ner(Head(snippets)) \o RawMentions(Tail(snippets))

\* how often the NER pass reported ent in the snippets
Occurrences(ent) ==
    LET raw == RawMentions(ee_snippets)
    IN  Cardinality({i \in 1..Len(raw) : raw[i] = ent})

\* the allowed pairs the NER pass reported that are not in the output
Omitted ==
    LET raw == RawMentions(ee_snippets)
    IN  {raw[i] : i \in 1..Len(raw)}
            \ ({ee_out[i].entity : i \in 1..Len(ee_out)}
               \cup {e \in {raw[i] : i \in 1..Len(raw)} : e.label \notin AllowedLabels})

\* C17: extract_entities returns at most 10 (text, label) pairs with their
\* counts, every label is in the allow-list, the pairs are in non-increasing
\* order of count, and no omitted pair has a count greater than that of a
\* returned pair.
C17_TopTenByFrequency ==
    ee_done =>
        /\ Len(ee_out) <= 10
        /\ \A i \in 1..Len(ee_out) :
              /\ ee_out[i].entity.label \in
                    {"ORG", "PRODUCT", "PERSON", "GPE", "DATE", "EVENT", "WORK_OF_ART"}
              /\ ee_out[i].count = Occurrences(ee_out[i].entity)
              /\ ee_out[i].count >= 1
        /\ \A i, j \in 1..Len(ee_out) :
              /\ i < j => ee_out[i].count >= ee_out[j].count
              /\ i # j => ee_out[i].entity # ee_out[j].entity
        /\ \A e \in Omitted : \A i \in 1..Len(ee_out) :
              Occurrences(e) <= ee_out[i].count

\* ten pairs are returned, with different counts, an allowed pair was left
\* out and a pair with a label outside the allow-list was reported
C17_Witness ==
    /\ ee_done
    /\ Len(ee_out) = 10
    /\ ee_out[1].count > ee_out[10].count
    /\ Omitted # {}
    /\ \E i \in 1..Len(RawMentions(ee_snippets)) :
          RawMentions(ee_snippets)[i].label \notin AllowedLabels

--------------------------------------------------------------------------
(* Claims about the summarization service *)

\* the provider outcomes of the calls made for request r, in order
Outcomes(r) == [i \in 1..Len(attempts[r]) |-> attempts[r][i].outcome]

\* every variant of the family request r asked for was called and failed
AllVariantsFailed(r) ==
    /\ rq_pc[r] = "done"
    /\ attempts[r] # <<>>
    /\ Len(attempts[r]) = Len(ModelVariants(request[r].model))
    /\ \A i \in 1..Len(attempts[r]) : ~attempts[r][i].outcome.ok

\* the variants were called in their listed order, each at most once, and
\* only the last call made can have succeeded
InOrderUntilFirstSuccess(r) ==
    LET variants == ModelVariants(request[r].model)
    IN  /\ Len(attempts[r]) <= Len(variants)
        /\ \A i \in 1..Len(attempts[r]) : attempts[r][i].model = variants[i]
        /\ \A i \in 1..(Len(attempts[r]) - 1) : ~attempts[r][i].outcome.ok
        /\ (rq_pc[r] = "calling" /\ attempts[r] # <<>>) =>
              ~attempts[r][Len(attempts[r])].outcome.ok

\* C13: for the families claude and gemini, /summarize attempts the concrete
\* model identifiers in their listed order, each at most once, stops at the
\* first attempt that succeeds, returns that attempt's completion as summary
\* and sets model_used to the identifier that produced it; no variant after
\* the first success is attempted.
C13_FirstSuccessIsReturned ==
    \A r \in Requests :
        request[r].model \in {"claude", "gemini"} =>
            /\ InOrderUntilFirstSuccess(r)
            /\ (attempts[r] # <<>> /\ attempts[r][Len(attempts[r])].outcome.ok) =>
                  /\ response[r].status = 200
                  /\ response[r].summary = attempts[r][Len(attempts[r])].outcome.text
                  /\ response[r].model_used = attempts[r][Len(attempts[r])].model

\* C14, as stated: when every variant of the requested family fails,
\* /summarize raises nothing and returns the requested family as model_used
\* and a summary holding one fixed failure phrase, the same for gpt-4o,
\* claude and gemini whatever the provider's error text.
C14_SamePhraseForAllFamilies ==
    \A r \in Requests :
        (request[r].model \in {"gpt-4o", "claude", "gemini"} /\ AllVariantsFailed(r)) =>
            /\ response[r].status = 200
            /\ response[r].model_used = request[r].model
            /\ response[r].summary =
                  "Unable to generate summary with the selected model: "
                      \o request[r].model

\* C14, amended: when every variant of the requested family fails,
\* /summarize raises nothing and returns the requested family as model_used;
\* for claude and gemini the summary is "Unable to generate summary with the
\* selected model: " followed by the family, for gpt-4o it is "Error
\* generating summary: " followed by the provider's error text.
C14_FailurePhrasePerFamily ==
    \A r \in Requests :
        (request[r].model \in {"gpt-4o", "claude", "gemini"} /\ AllVariantsFailed(r)) =>
            /\ response[r].status = 200
            /\ response[r].model_used = request[r].model
            /\ request[r].model \in {"claude", "gemini"} =>
                  response[r].summary =
                      "Unable to generate summary with the selected model: "
                          \o request[r].model
            /\ request[r].model = "gpt-4o" =>
                  response[r].summary =
                      "Error generating summary: " \o attempts[r][1].outcome.text

\* the five Claude variants failed for one request and gpt-4o failed for
\* the other
C14_Witness ==
    /\ request[1].model = "claude" /\ AllVariantsFailed(1)
    /\ Len(attempts[1]) = 5
    /\ response[1].model_used = "claude"
    /\ request[2].model = "gpt-4o" /\ AllVariantsFailed(2)
    /\ response[2].summary = "Error generating summary: connection reset"

\* C15: the service aborts at startup with a ValueError that names the
\* first missing one of OPENAI_API_KEY, ANTHROPIC_API_KEY, GOOGLE_API_KEY
\* when one of them is missing, so /summarize is never served with one of
\* these credentials absent.
C15_StartupAbortsOnMissingKey ==
    LET Missing(k) == environ[k] = <<>> \/ environ[k] = <<"">>
        keys == <<"OPENAI_API_KEY", "ANTHROPIC_API_KEY", "GOOGLE_API_KEY">>
    IN  /\ service \in {"serving", "aborted"} =>
              (service = "aborted" <=> \E i \in 1..3 : Missing(keys[i]))
        /\ service = "aborted" =>
              \E i \in 1..3 :
                  /\ Missing(keys[i])
                  /\ \A j \in 1..(i - 1) : ~Missing(keys[j])
                  /\ startup_error = keys[i] \o " environment variable not set"
        /\ (\E r \in Requests : rq_pc[r] # "idle") =>
              \A i \in 1..3 : ~Missing(keys[i])

\* the OpenAI key is set, the Anthropic key is empty, the Google key is
\* unset: the start aborts on the Anthropic key
C15_Witness ==
    /\ service = "aborted"
    /\ environ["OPENAI_API_KEY"] = Some("sk-live")
    /\ environ["ANTHROPIC_API_KEY"] = Some("")
    /\ environ["GOOGLE_API_KEY"] = None
    /\ startup_error = "ANTHROPIC_API_KEY environment variable not set"

\* C18: when entity extraction raises while the prompt of a /summarize
\* request is built, the request is not blocked: the prompt is still built
\* and dispatched and a SummarizeResponse is returned.
C18_NerFailureDoesNotBlock ==
    \A r \in Requests :
        (rq_pc[r] = "done" /\ ner[r] = "raises") =>
            /\ response[r].status = 200
            /\ ModelVariants(request[r].model) # <<>> => attempts[r] # <<>>

\* the response to a request handled alone, from the request, what the NER
\* pass did and what the provider calls returned
SummarizeAlone(req, nerOutcome, outs) ==
    LET unable == "Unable to generate summary with the selected model: " \o req.model
        last == outs[Len(outs)]
    IN  IF nerOutcome = "raises" THEN [status |-> 500, summary |-> "", model_used |-> ""]
        ELSE IF outs = <<>> \/ (~last.ok /\ req.model # "gpt-4o")
        THEN [status |-> 200, summary |-> unable, model_used |-> req.model]
        ELSE IF ~last.ok
        THEN [status |-> 200, summary |-> "Error generating summary: " \o last.text,
              model_used |-> req.model]
        ELSE [status |-> 200,
              summary |-> IF last.text = "" THEN unable ELSE last.text,
              model_used |-> ModelVariants(req.model)[Len(outs)]]

\* C19: handling a /summarize request shares no mutable state with other
\* requests: in every interleaving of two requests each response is the one
\* the request would get alone with the same provider outcomes, and every
\* provider call is made with the request's own prompt and model family.
C19_ResponsesAsIfAlone ==
    \A r \in Requests :
        /\ rq_pc[r] = "done" =>
              response[r] = SummarizeAlone(request[r], ner[r], Outcomes(r))
        /\ \A i \in 1..Len(attempts[r]) :
              /\ i <= Len(ModelVariants(request[r].model))
              /\ attempts[r][i].model = ModelVariants(request[r].model)[i]
              /\ attempts[r][i].prompt.query = request[r].query
              /\ (attempts[r][i].prompt.context = <<>>) <=> (request[r].results = <<>>)

\* request 1 was answered by the second Claude variant while request 2,
\* with another query, other results and another family, is between two
\* calls of its own
C19_Witness ==
    /\ rq_pc[1] = "done"
    /\ request[1].model = "claude"
    /\ response[1].model_used = "claude-3-haiku-20240307"
    /\ response[1].summary = "Here are the key findings."
    /\ rq_pc[2] = "calling"
    /\ request[2].model = "gemini"
    /\ Len(attempts[2]) = 2
    /\ request[2].query # request[1].query
    /\ request[2].results # request[1].results

--------------------------------------------------------------------------
(* Claims about the command line entry point *)

--------------------------------------------------------------------------
(* Claims from the repository's test scripts *)

\* C21: each query of the dynamic-search test is classified into the
\* category the test labels it with; the seventh, "Best practices for AI
\* development", is labelled general.
C21_TestLabels ==
    /\ prompt.query = "What are the top 10 AI tools for 2024?" =>
          prompt.template = "list"
    /\ prompt.query = "How to implement web search in my application?" =>
          prompt.template = "how-to"
    /\ prompt.query = "What is web search integration?" =>
          prompt.template = "definition"
    /\ prompt.query = "GPT-4o vs Claude vs Gemini comparison" =>
          prompt.template = "comparison"
    /\ prompt.query = "Latest AI developments and news" =>
          prompt.template = "news"
    /\ prompt.query = "Technical implementation of search APIs" =>
          prompt.template = "technical"
    /\ prompt.query = "Best practices for AI development" =>
          prompt.template = "general"

\* the position of engine in the list of engines, 0 when it is not in it
PositionOf(engine) ==
    IF \E i \in 1..Len(search_engines) : search_engines[i] = engine
    THEN CHOOSE i \in 1..Len(search_engines) : search_engines[i] = engine
    ELSE 0

GoogleDelivered ==
    IF \E i \in 1..Len(calls) : calls[i].engine = "google" /\ calls[i].ok
    THEN LET i == CHOOSE i \in 1..Len(calls) : calls[i].engine = "google" /\ calls[i].ok
         IN  calls[i].got
    ELSE 0

RECURSIVE GotBefore(_)
GotBefore(i) == IF i <= 1 THEN 0 ELSE GotBefore(i - 1) + calls[i - 1].got

\* C30: whenever _run calls a provider, the number of results it asks for
\* is max_results minus the number already gathered, and is at least 1 and
\* at most max_results.
C30_AsksForTheRemainder ==
    \A i \in 1..Len(calls) :
        /\ calls[i].asked = max_results - GotBefore(i)
        /\ calls[i].asked >= 1
        /\ calls[i].asked <= max_results

\* the second provider called was asked for the one result still missing
C30_Witness ==
    /\ max_results = 2
    /\ Len(calls) >= 2
    /\ calls[1].ok /\ calls[1].got = 1 /\ calls[1].asked = 2
    /\ calls[2].asked = 1

\* the failure placeholders of /summarize
IsPlaceholder(summary) ==
    \/ Contains(summary, "Unable to generate summary with the selected model: ")
    \/ Contains(summary, "Error generating summary: ")

\* C29: in every /summarize response model_used differs from the requested
\* model only if the summary is the completion of the variant model_used
\* names; whenever the summary is a failure placeholder, model_used is the
\* requested model, also when a variant answers with an empty completion.
C29_ModelUsedMatchesSummary ==
    \A r \in Requests :
        response[r].status = 200 =>
            /\ response[r].model_used # request[r].model =>
                  /\ attempts[r] # <<>>
                  /\ attempts[r][Len(attempts[r])].outcome.ok
                  /\ attempts[r][Len(attempts[r])].model = response[r].model_used
                  /\ attempts[r][Len(attempts[r])].outcome.text = response[r].summary
            /\ IsPlaceholder(response[r].summary) =>
                  response[r].model_used = request[r].model

--------------------------------------------------------------------------
(* Claims about configuration and research runs *)

\* C24: when DeepResearchSystem is constructed with an api_keys dictionary
\* holding the key of at least one AI provider, that provider is reported
\* as available and construction does not raise the missing-provider
\* ValueError, even if the key was not in the environment when the
\* configuration was loaded.
C24_GivenKeyMakesProviderAvailable ==
    rs_state \in {"ready", "failed"} =>
        \A p \in {"openai", "anthropic", "google"} :
            KeyOf(p) \in given.api_keys =>
                /\ rs_state = "ready"
                /\ provider_info.available_providers[p]

\* C25: when the command line gives --provider P, the research run uses P:
\* the preferred provider reported and recorded in the results, and the
\* model given to the agents, are those of P, whatever
\* PREFERRED_AI_PROVIDER was in the environment at the start.
C25_ProviderFlagIsUsed ==
    (given.provider # "none" /\ last_call.status = "returned") =>
        LET model == CASE given.provider = "openai" -> "gpt-4"
                       [] given.provider = "anthropic" -> "claude-3-sonnet-20240229"
                       [] given.provider = "google" -> "gemini-pro"
        IN  /\ provider_info.preferred_provider = given.provider
            /\ last_call.results.ai_provider = given.provider
            /\ last_call.results.ai_model = model
            /\ \A role \in {"manager", "researcher", "analyst", "editor", "reporter"} :
                  last_call.agent_models[role] = model

\* the report files the last call wrote
WrittenByLastCall ==
    {f \in files : f.timestamp = n_calls /\ f.dir = "research_outputs"}

\* C26: for every declared output format (markdown, pdf, html, json) a
\* successful conduct_research call with save_results=True writes a report
\* file with that format's extension under research_outputs/, and the
\* "Results saved to" message is printed only when such a file was written.
C26_EveryDeclaredFormatIsSaved ==
    /\ (last_call.status = "returned" /\ last_call.save_results
            /\ last_call.output_format \in {"markdown", "pdf", "html", "json"}) =>
          \E f \in WrittenByLastCall :
              f.ext = (IF last_call.output_format = "markdown" THEN "md"
                       ELSE last_call.output_format)
    /\ last_call.saved_message # <<>> => WrittenByLastCall # {}

\* C27: the task list of a research run is planning, initial research, deep
\* dive (exactly when the depth is comprehensive or expert), data analysis,
\* content editing, report generation, final review: 7 tasks for these two
\* depths and 6 for any other, planning first, final review last, and the
\* crew runs with the sequential process.
C27_TaskPipeline ==
    last_call.status # "none" =>
        LET names == [i \in 1..Len(last_call.tasks) |-> last_call.tasks[i].task]
            deep == last_call.research_depth \in {"comprehensive", "expert"}
        IN  /\ names = IF deep
                       THEN <<"planning", "initial research", "deep dive",
                              "data analysis", "content editing",
                              "report generation", "final review">>
                       ELSE <<"planning", "initial research", "data analysis",
                              "content editing", "report generation",
                              "final review">>
            /\ Len(names) = IF deep THEN 7 ELSE 6
            /\ names[1] = "planning"
            /\ names[Len(names)] = "final review"
            /\ last_call.process = "sequential"

\* an expert run with its seven tasks
C27_Witness ==
    /\ last_call.status = "returned"
    /\ last_call.research_depth = "expert"
    /\ Len(last_call.tasks) = 7
    /\ last_call.tasks[3].task = "deep dive"

\* the history holds entries of calls made, in call order
HistoryInCallOrder ==
    /\ Len(research_history) <= n_calls
    /\ \A i \in 1..Len(research_history) :
          research_history[i].timestamp \in 1..n_calls
    /\ \A i, j \in 1..Len(research_history) :
          i < j => research_history[i].timestamp < research_history[j].timestamp

\* a call that returns appends its entry, a call that raises changes nothing
CallStepKeepsHistory ==
    n_calls' = n_calls + 1 =>
        /\ last_call'.status = "returned" =>
              research_history' =
                  Append(research_history,
                         [topic |-> last_call'.topic, timestamp |-> n_calls',
                          results |-> last_call'.results])
        /\ last_call'.status = "raised" => research_history' = research_history

\* C28: after any sequence of conduct_research calls on one system,
\* research_history holds exactly one entry per call that returned
\* normally, in call order: a call that raises, also while saving the
\* report, leaves the history unchanged, and entries are never removed or
\* reordered.
C28_HistoryOfReturnedCalls ==
    []HistoryInCallOrder /\ [][CallStepKeepsHistory]_vars

\* the first call returned, the second raised while saving: the history
\* still holds the first call's entry only
C28_Witness ==
    /\ n_calls = 2
    /\ last_call.failure = "save raises"
    /\ Len(research_history) = 1
    /\ research_history[1].timestamp = 1

====
